---- MODULE Spec2Model ----
(***************************************************************************)
(* A model of the rigid-body core of constraints-solver:                   *)
(*   collision.rs   ground contact generation and the GJK overlap test     *)
(*   constraint.rs  Constraint::direction / resistance / act               *)
(*   rigid.rs       Rigid::new / integrate / derive / apply_impulse / delta*)
(*                                                                         *)
(* Numbers.  Every length is measured in half metres, so that the cube     *)
(* corners (+-0.5 m) and the body positions of the model are integers and  *)
(* every sum, difference and product the code forms is exact in f64.  What *)
(* an integer cannot say about an f64 is kept beside it: a float of the    *)
(* model is a pair <<v, s>> of its value v and a tag s, which is the sign  *)
(* bit (so that 0.0 and -0.0 are two floats, as f64::total_cmp has them)   *)
(* or marks NaN.                                                           *)
(***************************************************************************)
EXTENDS Integers, Sequences, FiniteSets, TLC

\* Bodies of the overlap test: the coordinates of `self` range over
\* 0..MaxPosA and those of `other` over -MaxPosB..MaxPosB (half metres).
MaxPosA == 1
MaxPosB == 4

\* The same for the termination check, which explores fewer bodies.
MaxLivePosA == 0
MaxLivePosB == 3

\* The simulated body: it is set up at a height of 0..MaxHeight, and a step
\* that would take a coordinate of its position beyond MaxCoord or of its
\* velocity beyond MaxSpeed is not taken (half metres, seconds).
MaxHeight == 2
MaxCoord == 2
MaxSpeed == 1

\* The constraint passes of one solver step (world.rs asks for 25).
MaxIterations == 2

(***************************************************************************)
(* f64 arithmetic.  A float is <<v, s>>: s = 1 or -1 is the sign bit of    *)
(* the exactly represented value v; s = 0 is NaN; s = 2 is a finite value  *)
(* that is not a whole number of the model's units (the model does not     *)
(* follow the program into such states: see Lattice).  Every operator      *)
(* applies a function of the same name (with a trailing _), so that its    *)
(* arguments are evaluated once, as Rust evaluates them.                   *)
(***************************************************************************)
Float == Int \X {-1, 0, 1, 2}

NaN == <<0, 0>>
Inexact == <<0, 2>>

F(n) == <<n, IF n < 0 THEN -1 ELSE 1>>

IsNaN(a) == a[2] = 0
IsExact(a) == a[2] = 1 \/ a[2] = -1
IsZero(a) == IsExact(a) /\ a[1] = 0

FNeg_[a \in Float] == IF IsExact(a) THEN <<-a[1], -a[2]>> ELSE a
FNeg(a) == FNeg_[a]

\* NaN * x = NaN; a finite value times zero is zero.
FMul_[a \in Float, b \in Float] ==
    IF IsExact(a) /\ IsExact(b) THEN <<a[1] * b[1], a[2] * b[2]>>
    ELSE IF IsNaN(a) \/ IsNaN(b) THEN NaN
    ELSE IF IsZero(a) \/ IsZero(b) THEN F(0)
    ELSE Inexact
FMul(a, b) == FMul_[a, b]

\* x + y is -0.0 only when both are -0.0; an exact cancellation gives +0.0.
FAdd_[a \in Float, b \in Float] ==
    IF IsExact(a) /\ IsExact(b)
    THEN LET v == a[1] + b[1]
         IN  <<v, IF v > 0 THEN 1
                  ELSE IF v < 0 THEN -1
                  ELSE IF a[1] = 0 /\ a[2] = -1 /\ b[2] = -1 THEN -1
                  ELSE 1>>
    ELSE IF IsNaN(a) \/ IsNaN(b) THEN NaN
    ELSE Inexact
FAdd(a, b) == FAdd_[a, b]

FSub(a, b) == FAdd(a, FNeg(b))

\* a / b: 0/0 is NaN; a quotient that is not a whole number is Inexact.  (No
\* non-zero value is divided by zero anywhere in the model.)
FDiv_[a \in Float, b \in Float] ==
    IF IsNaN(a) \/ IsNaN(b) THEN NaN
    ELSE IF IsZero(b) THEN (IF IsZero(a) THEN NaN ELSE Inexact)
    ELSE IF IsZero(a) THEN <<0, a[2] * (IF IsExact(b) THEN b[2] ELSE 1)>>
    ELSE IF IsExact(a) /\ IsExact(b) /\ a[1] % b[1] = 0
         THEN <<(a[1] * b[2]) \div (b[1] * b[2]), a[2] * b[2]>>
    ELSE Inexact
FDiv(a, b) == FDiv_[a, b]

\* f64::sqrt on a value of the model: exact on perfect squares.
FSqrt_[a \in Float] ==
    IF IsNaN(a) THEN NaN
    ELSE IF ~IsExact(a) THEN Inexact
    ELSE IF a[1] < 0 THEN NaN
    ELSE IF \E r \in 0..a[1] : r * r = a[1]
         THEN F(CHOOSE r \in 0..a[1] : r * r = a[1])
    ELSE Inexact
FSqrt(a) == FSqrt_[a]

\* a > 0.0 and a >= 0.0 (false for NaN).
FGt0(a) == IsExact(a) /\ a[1] > 0
FGe0(a) == IsExact(a) /\ a[1] >= 0

\* f64::total_cmp orders -0.0 below +0.0; TotalKey is monotone in that order.
TotalKey_[a \in Float] == 2 * a[1] + (IF a[2] = 1 THEN 1 ELSE 0)
TotalKey(a) == TotalKey_[a]

(***************************************************************************)
(* cgmath::Vector3<f64>.  Only the components 1..3 are read, so a vector   *)
(* may carry a fourth component (see Tag below).                           *)
(***************************************************************************)
Vector == Seq(Float)

Vec(x, y, z) == <<F(x), F(y), F(z)>>

Coords_[a \in Vector] == <<a[1], a[2], a[3]>>
Coords(a) == Coords_[a]

VNeg_[a \in Vector] == <<FNeg(a[1]), FNeg(a[2]), FNeg(a[3])>>
VNeg(a) == VNeg_[a]

VAdd_[a \in Vector, b \in Vector] ==
    <<FAdd(a[1], b[1]), FAdd(a[2], b[2]), FAdd(a[3], b[3])>>
VAdd(a, b) == VAdd_[a, b]

VSub_[a \in Vector, b \in Vector] ==
    <<FSub(a[1], b[1]), FSub(a[2], b[2]), FSub(a[3], b[3])>>
VSub(a, b) == VSub_[a, b]

\* x*x' + y*y' + z*z', summed left to right.
Dot_[a \in Vector, b \in Vector] ==
    FAdd(FAdd(FMul(a[1], b[1]), FMul(a[2], b[2])), FMul(a[3], b[3]))
Dot(a, b) == Dot_[a, b]

Cross_[a \in Vector, b \in Vector] ==
    <<FSub(FMul(a[2], b[3]), FMul(a[3], b[2])),
      FSub(FMul(a[3], b[1]), FMul(a[1], b[3])),
      FSub(FMul(a[1], b[2]), FMul(a[2], b[1]))>>
Cross(a, b) == Cross_[a, b]

unit_x == Vec(1, 0, 0)

\* The instrumentation of the simplex: a point of the simplex carries, as a
\* fourth component, the order in which it was added (larger = later).
Tag_[a \in Vector, t \in Int] == <<a[1], a[2], a[3], F(t)>>
Tag(a, t) == Tag_[a, t]

Age(a) == a[4][1]

CUBE_VERTICES ==
    << Vec(-1, -1, -1), Vec(1, -1, -1), Vec(-1, 1, -1), Vec(1, 1, -1),
       Vec(-1, -1, 1),  Vec(1, -1, 1),  Vec(-1, 1, 1),  Vec(1, 1, 1) >>

(***************************************************************************)
(* More of cgmath: scalar products and quotients, norms, and               *)
(* Quaternion<f64> as <<s, x, y, z>> (Quaternion::new(w, xi, yj, zk)).     *)
(***************************************************************************)
Zero3 == Vec(0, 0, 0)

VScale_[k \in Float, a \in Vector] == <<FMul(k, a[1]), FMul(k, a[2]), FMul(k, a[3])>>
VScale(k, a) == VScale_[k, a]

VDivS_[a \in Vector, k \in Float] == <<FDiv(a[1], k), FDiv(a[2], k), FDiv(a[3], k)>>
VDivS(a, k) == VDivS_[a, k]

div_element_wise_[a \in Vector, b \in Vector] ==
    <<FDiv(a[1], b[1]), FDiv(a[2], b[2]), FDiv(a[3], b[3])>>
div_element_wise(a, b) == div_element_wise_[a, b]

magnitude2(a) == Dot(a, a)
magnitude(a) == FSqrt(magnitude2(a))

\* InnerSpace::normalize: every component over the magnitude (0/0 = NaN for
\* the zero vector), in exact arithmetic.
normalize(a) == VDivS(a, magnitude(a))

\* A projection that is always the zero vector.
project_on_nothing(a, other) == VSub(other, other)

\* InnerSpace::project_on: other * (self . other / |other|^2).  The quotient
\* is kept as a fraction until the product is taken, so that the result is the
\* exact one; f64 agrees with it on the values the bounds below admit.
project_on(a, other) == VDivS(VScale(Dot(a, other), other), magnitude2(other))

Quaternion == Seq(Float)

Quat(s, x, y, z) == <<F(s), F(x), F(y), F(z)>>

QV(q) == <<q[2], q[3], q[4]>>

conjugate_[q \in Quaternion] == <<q[1], FNeg(q[2]), FNeg(q[3]), FNeg(q[4])>>
conjugate(q) == conjugate_[q]

\* Quaternion * Vector3: tmp = v x vec + vec * s; (v x tmp) * 2 + vec.
QRotate_[q \in Quaternion, vec \in Vector] ==
    LET tmp == VAdd(Cross(QV(q), vec), VScale(q[1], vec))
    IN  VAdd(VScale(F(2), Cross(QV(q), tmp)), vec)
QRotate(q, vec) == QRotate_[q, vec]

\* Quaternion * Quaternion.
QMul_[l \in Quaternion, r \in Quaternion] ==
    << FSub(FSub(FSub(FMul(l[1], r[1]), FMul(l[2], r[2])), FMul(l[3], r[3])),
            FMul(l[4], r[4])),
       FSub(FAdd(FAdd(FMul(l[1], r[2]), FMul(l[2], r[1])), FMul(l[3], r[4])),
            FMul(l[4], r[3])),
       FSub(FAdd(FAdd(FMul(l[1], r[3]), FMul(l[3], r[1])), FMul(l[4], r[2])),
            FMul(l[2], r[4])),
       FSub(FAdd(FAdd(FMul(l[1], r[4]), FMul(l[4], r[1])), FMul(l[2], r[3])),
            FMul(l[3], r[2])) >>
QMul(l, r) == QMul_[l, r]

QAdd_[l \in Quaternion, r \in Quaternion] ==
    <<FAdd(l[1], r[1]), FAdd(l[2], r[2]), FAdd(l[3], r[3]), FAdd(l[4], r[4])>>
QAdd(l, r) == QAdd_[l, r]

\* 0.5 * q: halving is exact in f64.
QHalf_[q \in Quaternion] ==
    <<FDiv(q[1], F(2)), FDiv(q[2], F(2)), FDiv(q[3], F(2)), FDiv(q[4], F(2))>>
QHalf(q) == QHalf_[q]

QNormalize_[q \in Quaternion] ==
    LET m == FSqrt(FAdd(FAdd(FAdd(FMul(q[1], q[1]), FMul(q[2], q[2])),
                             FMul(q[3], q[3])), FMul(q[4], q[4])))
    IN  <<FDiv(q[1], m), FDiv(q[2], m), FDiv(q[3], m), FDiv(q[4], m)>>
QNormalize(q) == QNormalize_[q]

\* A value the model follows: no component is Inexact.
LatticeSeq(a) == \A i \in DOMAIN a : a[i][2] # 2

HasNaN(a) == \E i \in DOMAIN a : IsNaN(a[i])

(***************************************************************************)
(* Frame: position and orientation.                                        *)
(***************************************************************************)
Frame_default == [position |-> Zero3, quaternion |-> Quat(1, 0, 0, 0)]

\* Frame::act: the orientation, then the translation.
Frame_act(frame, point) == VAdd(QRotate(frame.quaternion, point), frame.position)

\* Frame::inverse: the conjugate orientation and the negated, rotated position.
Frame_inverse(frame) ==
    LET qc == conjugate(frame.quaternion)
    IN  [position |-> QRotate(qc, VNeg(frame.position)), quaternion |-> qc]

\* Frame::integrate: position += dt * velocity; the orientation is advanced by
\* the exponential map of dt * angular_velocity, which is the identity for a
\* zero angular velocity and leaves the lattice of the model otherwise.
Frame_integrate(frame, dt, velocity, angular_velocity) ==
    [position |-> VAdd(frame.position, VScale(dt, velocity)),
     quaternion |->
        IF HasNaN(angular_velocity) \/ HasNaN(frame.quaternion) \/ IsNaN(dt)
        THEN <<NaN, NaN, NaN, NaN>>
        ELSE IF \A i \in 1..3 : IsZero(angular_velocity[i])
        THEN frame.quaternion
        ELSE <<Inexact, Inexact, Inexact, Inexact>>]

\* Frame::derive: the velocity (position - past.position) / dt and the rate of
\* the rotation from past.quaternion to quaternion (zero for equal ones).
Frame_derive(frame, dt, past) ==
    << VDivS(VSub(frame.position, past.position), dt),
       IF HasNaN(frame.quaternion) \/ HasNaN(past.quaternion) \/ IsNaN(dt)
       THEN <<NaN, NaN, NaN>>
       ELSE IF frame.quaternion = past.quaternion
       THEN Zero3
       ELSE <<Inexact, Inexact, Inexact>> >>

None == <<>>
Some(x) == <<x>>

(***************************************************************************)
(* Rigid (rigid.rs).  mass in kg, lengths in half metres;                  *)
(* rotational_inertia is kept in twelfths of kg hm^2 (the 1/12 of          *)
(* Rigid::new is applied where the code divides by the inertia).           *)
(***************************************************************************)
Rigid_new(mass) ==
    LET extent == Vec(2, 2, 2)
        e2(i) == FMul(extent[i], extent[i])
    IN  [ mass |-> mass,
          rotational_inertia |->
              VScale(mass, <<FAdd(e2(2), e2(3)), FAdd(e2(1), e2(3)), FAdd(e2(1), e2(2))>>),
          internal_force |-> Zero3,
          external_force |-> Zero3,
          internal_torque |-> Zero3,
          external_torque |-> Zero3,
          velocity |-> Zero3,
          angular_velocity |-> Zero3,
          frame |-> Frame_default,
          past_frame |-> None ]

\* a.div_element_wise(self.rotational_inertia)
DivInertia(a, self) == div_element_wise(VScale(F(12), a), self.rotational_inertia)

\* integrate that snapshots the frame after advancing it.
integrate_snapshot_late(self, dt) ==
    LET force == VAdd(self.external_force, QRotate(self.frame.quaternion, self.internal_force))
        velocity == VAdd(self.velocity, VDivS(VScale(dt, force), self.mass))
        torque == VAdd(self.external_torque,
                       QRotate(self.frame.quaternion, self.internal_torque))
        angular_velocity ==
            VAdd(self.angular_velocity, VScale(dt, DivInertia(torque, self)))
        frame == Frame_integrate(self.frame, dt, velocity, angular_velocity)
    IN  [self EXCEPT !.velocity = velocity,
                     !.angular_velocity = angular_velocity,
                     !.past_frame = Some(frame),
                     !.frame = frame]

integrate(self, dt) ==
    LET force == VAdd(self.external_force, QRotate(self.frame.quaternion, self.internal_force))
        velocity == VAdd(self.velocity, VDivS(VScale(dt, force), self.mass))
        torque == VAdd(self.external_torque,
                       QRotate(self.frame.quaternion, self.internal_torque))
        angular_velocity ==
            VAdd(self.angular_velocity, VScale(dt, DivInertia(torque, self)))
    IN  [self EXCEPT !.velocity = velocity,
                     !.angular_velocity = angular_velocity,
                     !.past_frame = Some(self.frame),
                     !.frame = Frame_integrate(self.frame, dt, velocity, angular_velocity)]

derive(self, dt) ==
    IF self.past_frame # None
    THEN LET d == Frame_derive(self.frame, dt, self.past_frame[1])
         IN  [self EXCEPT !.velocity = d[1], !.angular_velocity = d[2]]
    ELSE [self EXCEPT !.velocity = Zero3, !.angular_velocity = Zero3]

apply_impulse(self, impulse, point) ==
    LET position == VAdd(self.frame.position, VDivS(impulse, self.mass))
        log == Cross(DivInertia(VSub(point, position), self), impulse)
        rotation == QMul(QHalf(<<F(0), log[1], log[2], log[3]>>), self.frame.quaternion)
    IN  [self EXCEPT !.frame =
            [position |-> position,
             quaternion |-> QNormalize(QAdd(self.frame.quaternion, rotation))]]

delta(self, global) ==
    IF self.past_frame # None
    THEN LET local == Frame_act(Frame_inverse(self.frame), global)
             past_global == Frame_act(self.past_frame[1], local)
         IN  VSub(global, past_global)
    ELSE Zero3

(***************************************************************************)
(* Constraint (constraint.rs).  The Rigid behind `rigid` is a parameter.   *)
(***************************************************************************)
Constraint(c0, c1) == [contacts |-> <<c0, c1>>, distance |-> F(0)]

difference(self) == VSub(self.contacts[2], self.contacts[1])

direction(self) == normalize(difference(self))

current_distance(self) == magnitude(difference(self))

resistance(self, rigid) ==
    LET angular_impulse ==
            QRotate(conjugate(rigid.frame.quaternion),
                    Cross(VSub(self.contacts[1], rigid.frame.position), direction(self)))
    IN  FDiv(F(1),
             FAdd(FDiv(F(1), rigid.mass),
                  Dot(DivInertia(angular_impulse, rigid), angular_impulse)))

\* The Rigid after self.act(factor).
act(self, rigid, factor) ==
    LET impulse == VScale(factor, direction(self))
    IN  apply_impulse(rigid, impulse, self.contacts[1])

(***************************************************************************)
(* Ground contact generation (collision.rs).                               *)
(***************************************************************************)
\* The body of the loop with the test position.z > 0.0: a vertex on the plane
\* is not skipped.
ground_vertex_on_plane(rigid, vertex) ==
    LET position == Frame_act(rigid.frame, vertex)
        target_position == <<position[1], position[2], F(0)>>
        correction == VSub(target_position, position)
        delta_position == delta(rigid, position)
        delta_tangential_position ==
            VSub(delta_position, project_on(delta_position, correction))
    IN  IF FGt0(position[3])
        THEN <<>>
        ELSE << [contacts |-> <<position,
                                VSub(target_position,
                                     VScale(F(1), delta_tangential_position))>>,
                 distance |-> F(0)] >>

\* The constraint of one vertex, or none: the body of the loop of ground.
ground_vertex(rigid, vertex) ==
    LET position == Frame_act(rigid.frame, vertex)
        target_position == <<position[1], position[2], F(0)>>
        correction == VSub(target_position, position)
        delta_position == delta(rigid, position)
        delta_tangential_position ==
            VSub(delta_position, project_on(delta_position, correction))
    IN  IF FGe0(position[3])
        THEN <<>>
        ELSE << [contacts |-> <<position,
                                VSub(target_position,
                                     VScale(F(1), delta_tangential_position))>>,
                 distance |-> F(0)] >>

RECURSIVE ground_from(_, _)
ground_from(rigid, i) ==
    IF i > Len(CUBE_VERTICES)
    THEN <<>>
    ELSE ground_vertex(rigid, CUBE_VERTICES[i]) \o ground_from(rigid, i + 1)

ground(rigid) == ground_from(rigid, 1)

(***************************************************************************)
(* GJK (collision.rs).  A body of the overlap test has the identity        *)
(* orientation, so Frame::act is the translation by the body's position.   *)
(***************************************************************************)
GjkAct(position, p) == VAdd(p, position)

same_direction(a, b) == FGt0(Dot(a, b))

\* Iterator::max_by keeps the last of several equally maximal elements.
support(position, dir) ==
    LET w == [i \in 1..8 |-> GjkAct(position, CUBE_VERTICES[i])]
        k == [i \in 1..8 |-> TotalKey(Dot(w[i], dir))]
        best == CHOOSE i \in 1..8 :
                    \A j \in 1..8 : k[j] <= k[i] /\ (j > i => k[j] < k[i])
    IN  w[best]

minkowski_support(self, other, dir) ==
    VSub(support(self, dir), support(other, VNeg(dir)))

Point(a) == [kind |-> "Point", pts |-> <<a>>]
Line(a, b) == [kind |-> "Line", pts |-> <<a, b>>]
Triangle(a, b, c) == [kind |-> "Triangle", pts |-> <<a, b, c>>]

Continue(s, d) == [ok |-> FALSE, simplex |-> s, direction |-> d]
Enclosed(a, b, c, d) == [ok |-> TRUE, simplex |-> <<a, b, c, d>>, direction |-> <<>>]

line(a, b) ==
    LET ab == VSub(b, a)
        ao == VNeg(a)
    IN  IF same_direction(ab, ao)
        THEN Continue(Line(a, b), Cross(Cross(ab, ao), ab))
        ELSE Continue(Point(a), ao)

triangle(a, b, c) ==
    LET ab == VSub(b, a)
        ac == VSub(c, a)
        ao == VNeg(a)
        abc == Cross(ab, ac)
    IN  IF same_direction(Cross(abc, ac), ao)
        THEN IF same_direction(ac, ao)
             THEN Continue(Line(a, c), Cross(Cross(ac, ao), ac))
             ELSE line(a, b)
        ELSE IF same_direction(Cross(ab, abc), ao)
        THEN line(a, b)
        ELSE IF same_direction(abc, ao)
        THEN Continue(Triangle(a, b, c), abc)
        ELSE Continue(Triangle(a, c, b), VNeg(abc))

\* tetrahedron without the test of the face a, d, b.
tetrahedron_two_faces(a, b, c, d) ==
    LET ab == VSub(b, a)
        ac == VSub(c, a)
        ad == VSub(d, a)
        ao == VNeg(a)
        abc == Cross(ab, ac)
        acd == Cross(ac, ad)
    IN  IF same_direction(abc, ao)
        THEN triangle(a, b, c)
        ELSE IF same_direction(acd, ao)
        THEN triangle(a, c, d)
        ELSE Enclosed(a, b, c, d)

tetrahedron(a, b, c, d) ==
    LET ab == VSub(b, a)
        ac == VSub(c, a)
        ad == VSub(d, a)
        ao == VNeg(a)
        abc == Cross(ab, ac)
        acd == Cross(ac, ad)
        adb == Cross(ad, ab)
    IN  IF same_direction(abc, ao)
        THEN triangle(a, b, c)
        ELSE IF same_direction(acd, ao)
        THEN triangle(a, c, d)
        ELSE IF same_direction(adb, ao)
        THEN triangle(a, d, b)
        ELSE Enclosed(a, b, c, d)

\* enclose handing the new point to the simplex as its last point.
enclose_appends(self, v) ==
    CASE self.kind = "Point" -> line(self.pts[1], v)
      [] self.kind = "Line" -> triangle(self.pts[1], self.pts[2], v)
      [] self.kind = "Triangle" ->
            tetrahedron(self.pts[1], self.pts[2], self.pts[3], v)

enclose(self, v) ==
    CASE self.kind = "Point" -> line(v, self.pts[1])
      [] self.kind = "Line" -> triangle(v, self.pts[1], self.pts[2])
      [] self.kind = "Triangle" ->
            tetrahedron(v, self.pts[1], self.pts[2], self.pts[3])

\* The order of addition of the points of a simplex, renumbered 1..n.
Renumber(s) ==
    [s EXCEPT !.pts =
        [i \in DOMAIN s.pts |->
            Tag(s.pts[i],
                Cardinality({j \in DOMAIN s.pts : Age(s.pts[j]) <= Age(s.pts[i])}))]]

VARIABLES
    posA,       \* self.frame.position of gjk's receiver
    posB,       \* other.frame.position
    pc,         \* "idle", "loop" or "done": the position in Rigid::gjk
    simplex,    \* the local `simplex`
    search,     \* the local `direction`
    added,      \* the support point the last iteration handed to enclose
    result,     \* the value gjk returned, once pc = "done"
    rigid,      \* the Rigid behind the RefCell
    constraints,\* the Constraints in hand: the Vec ground returned, or one
                \* built by the caller; dropped by the next operation
    op,         \* the last operation on the Rigid
    snapshot,   \* the frame the body held just before its last integrate
    resisted,   \* the value the last call of resistance returned
    at,         \* the position in the solver step
    iteration,  \* the constraint passes of this step that are complete
    vertex,     \* the index into CUBE_VERTICES of the loop of ground
    emitted,    \* the length of the Vec ground is building, or has returned
    current,    \* the index of the constraint the pass is at
    readers,    \* RefCell<Rigid>: the shared borrows that are live
    writer,     \* RefCell<Rigid>: whether the mutable borrow is live
    panicked    \* a borrow was refused (BorrowError / BorrowMutError)

gjkVars == <<posA, posB, pc, simplex, search, added, result>>

rigidVars == <<rigid, constraints, op, snapshot, resisted>>

solverVars == <<at, iteration, vertex, emitted, current, readers, writer, panicked>>

vars == <<gjkVars, rigidVars, solverVars>>

NoVec == <<>>

Abs(n) == IF n < 0 THEN -n ELSE n

Box(lo, hi) == {Vec(x, y, z) : x \in lo..hi, y \in lo..hi, z \in lo..hi}

\* No call of gjk is running, the Rigid is as Rigid::new(1.0) built it, the
\* cell around it is not borrowed and no solver step is running.
Init ==
    /\ posA = Vec(0, 0, 0)
    /\ posB = Vec(0, 0, 0)
    /\ pc = "idle"
    /\ simplex = [kind |-> "None", pts |-> <<>>]
    /\ search = NoVec
    /\ added = NoVec
    /\ result = FALSE
    /\ rigid = Rigid_new(F(1))
    /\ constraints = <<>>
    /\ op = "new"
    /\ snapshot = None
    /\ resisted = F(0)
    /\ at = "idle"
    /\ iteration = 0
    /\ vertex = 1
    /\ emitted = 0
    /\ current = 1
    /\ readers = 0
    /\ writer = FALSE
    /\ panicked = FALSE

\* collision.rs 57-59: the call self.gjk(other), the first support point and
\* the first direction.
gjk_start(selves, others) ==
    /\ pc = "idle"
    /\ \E self \in selves, other \in others :
         /\ posA' = self
         /\ posB' = other
         /\ \E d \in {VNeg(minkowski_support(self, other, unit_x))} :
                /\ search' = d
                /\ simplex' = Point(Tag(VNeg(d), 1))
    /\ pc' = "loop"
    /\ UNCHANGED <<added, result, rigidVars, solverVars>>

\* gjk's loop without the test that the support point passed the origin.
gjk_loop_no_separation_test ==
    /\ pc = "loop"
    /\ \E sup \in {minkowski_support(posA, posB, search)} :
       \E r \in {enclose(simplex, Tag(sup, Len(simplex.pts) + 1))} :
           IF r.ok
           THEN /\ pc' = "done"
                /\ result' = TRUE
                /\ UNCHANGED <<simplex, search, added>>
           ELSE /\ simplex' = Renumber(r.simplex)
                /\ search' = r.direction
                /\ added' = sup
                /\ UNCHANGED <<pc, result>>
    /\ UNCHANGED <<posA, posB, rigidVars, solverVars>>

\* collision.rs 61-75: one iteration of the loop.  (sup and r are bound by \E
\* over a singleton so that each is computed once per step.)
gjk_loop ==
    /\ pc = "loop"
    /\ \E sup \in {minkowski_support(posA, posB, search)} :
       \E r \in {enclose(simplex, Tag(sup, Len(simplex.pts) + 1))} :
           IF ~same_direction(search, sup)
           THEN /\ pc' = "done"
                /\ result' = FALSE
                /\ UNCHANGED <<simplex, search, added>>
           ELSE IF r.ok
           THEN /\ pc' = "done"
                /\ result' = TRUE
                /\ UNCHANGED <<simplex, search, added>>
           ELSE /\ simplex' = Renumber(r.simplex)
                /\ search' = r.direction
                /\ added' = sup
                /\ UNCHANGED <<pc, result>>
    /\ UNCHANGED <<posA, posB, rigidVars, solverVars>>

GjkNext == gjk_start(Box(0, MaxPosA), Box(-MaxPosB, MaxPosB)) \/ gjk_loop

SpecGjk == Init /\ [][GjkNext]_vars

\* The same program on the bodies of the termination check.  gjk is a
\* sequential loop without suspension points: a step that can be taken is taken.
GjkLiveNext ==
    gjk_start(Box(0, MaxLivePosA), Box(-MaxLivePosB, MaxLivePosB)) \/ gjk_loop

SpecGjkLive == Init /\ [][GjkLiveNext]_vars /\ WF_vars(GjkLiveNext)

(***************************************************************************)
(* The operations on one Rigid (rigid.rs, collision.rs::ground).  The      *)
(* model follows the body while its state stays on the lattice: dt is 1 s, *)
(* forces, velocities and impulses are whole numbers of the units.         *)
(***************************************************************************)
Lattice(r) ==
    /\ LatticeSeq(r.velocity) /\ LatticeSeq(r.angular_velocity)
    /\ LatticeSeq(r.frame.position) /\ LatticeSeq(r.frame.quaternion)

Within(a, bound) == \A i \in DOMAIN a : IsExact(a[i]) => Abs(a[i][1]) <= bound

InBounds(r) == Within(r.frame.position, MaxCoord) /\ Within(r.velocity, MaxSpeed)

\* The unit quaternions with whole components: the identity and the half
\* turns about the three axes.
LatticeQuaternions == {Quat(1, 0, 0, 0), Quat(0, 1, 0, 0), Quat(0, 0, 1, 0), Quat(0, 0, 0, 1)}

\* Initial conditions, set through the public fields (world.rs 35-41).
rigid_setup ==
    /\ op = "new"
    /\ \E z \in 0..MaxHeight, q \in LatticeQuaternions,
          vx \in {0, 1}, vz \in {-1, 0}, g \in {0, 1} :
         rigid' = [rigid EXCEPT !.frame = [position |-> Vec(0, 0, z), quaternion |-> q],
                                !.velocity = Vec(vx, 0, vz),
                                !.external_force = Vec(0, 0, -g)]
    /\ op' = "setup"
    /\ constraints' = <<>>
    /\ UNCHANGED <<snapshot, resisted, gjkVars, solverVars>>

rigid_integrate ==
    /\ \E dt \in {F(1)} : rigid' = integrate(rigid, dt)
    /\ Lattice(rigid') /\ InBounds(rigid')
    /\ snapshot' = Some(rigid.frame)
    /\ op' = "integrate"
    /\ constraints' = <<>>
    /\ UNCHANGED <<resisted, gjkVars, solverVars>>

rigid_derive ==
    /\ \E dt \in {F(1)} : rigid' = derive(rigid, dt)
    /\ Lattice(rigid') /\ InBounds(rigid')
    /\ op' = "derive"
    /\ constraints' = <<>>
    /\ UNCHANGED <<snapshot, resisted, gjkVars, solverVars>>

rigid_apply_impulse ==
    /\ \E impulse \in {Vec(0, 0, 1), Vec(1, 0, 0)},
          arm \in {Vec(0, 0, 0), Vec(0, 0, -1), Vec(1, 0, 0)} :
         rigid' = apply_impulse(rigid, impulse, VAdd(rigid.frame.position, arm))
    /\ Lattice(rigid') /\ InBounds(rigid')
    /\ op' = "apply_impulse"
    /\ constraints' = <<>>
    /\ UNCHANGED <<snapshot, resisted, gjkVars, solverVars>>

rigid_ground ==
    /\ constraints' = ground(rigid)
    /\ op' = "ground"
    /\ UNCHANGED <<rigid, snapshot, resisted, gjkVars, solverVars>>

RigidNext ==
    rigid_setup \/ rigid_integrate \/ rigid_derive \/ rigid_apply_impulse
    \/ rigid_ground

SpecRigid == Init /\ [][RigidNext]_vars

(***************************************************************************)
(* Constraints built by hand on the Rigid (constraint.rs): the contact      *)
(* point is on the body, the target a step away from it, or on it.          *)
(***************************************************************************)
constraint_new ==
    /\ \E arm \in {Vec(0, 0, 0), Vec(0, 0, -1), Vec(1, 0, 0)},
          step \in {Vec(0, 0, 0), Vec(0, 0, 1), Vec(0, 0, 2), Vec(1, 0, 0)} :
         \E c0 \in {VAdd(rigid.frame.position, arm)} :
            constraints' = << Constraint(c0, VAdd(c0, step)) >>
    /\ op' = "constraint"
    /\ UNCHANGED <<rigid, snapshot, resisted, gjkVars, solverVars>>

constraint_resistance ==
    /\ constraints # <<>>
    /\ resisted' = resistance(constraints[1], rigid)
    /\ resisted' # Inexact
    /\ op' = "resistance"
    /\ UNCHANGED <<rigid, constraints, snapshot, gjkVars, solverVars>>

\* act(1.0), and the solver's act(resistance() * current_distance()).
constraint_act ==
    /\ constraints # <<>>
    /\ \E factor \in {F(1), FMul(resistance(constraints[1], rigid),
                                 current_distance(constraints[1]))} :
         rigid' = act(constraints[1], rigid, factor)
    /\ Lattice(rigid') /\ InBounds(rigid')
    /\ op' = "act"
    /\ UNCHANGED <<constraints, snapshot, resisted, gjkVars, solverVars>>

ConstraintNext == constraint_new \/ constraint_resistance \/ constraint_act

SpecConstraint == Init /\ [][ConstraintNext]_vars

(***************************************************************************)
(* The borrows of the RefCell<Rigid> during one solver step.  The pose is   *)
(* left out here: either outcome of ground's test of z is possible.         *)
(***************************************************************************)
\* RefCell::borrow: refused while the mutable borrow is live.
borrow(next) ==
    IF writer
    THEN panicked' = TRUE /\ UNCHANGED <<at, readers, writer>>
    ELSE readers' = readers + 1 /\ at' = next /\ UNCHANGED <<writer, panicked>>

\* RefCell::borrow_mut: refused while any borrow is live.
borrow_mut(next) ==
    IF writer \/ readers > 0
    THEN panicked' = TRUE /\ UNCHANGED <<at, readers, writer>>
    ELSE writer' = TRUE /\ at' = next /\ UNCHANGED <<readers, panicked>>

\* The end of the life of a Ref and of a RefMut.
drop_ref(next) == readers' = readers - 1 /\ at' = next /\ UNCHANGED <<writer, panicked>>

drop_ref_mut(next) == writer' = FALSE /\ at' = next /\ UNCHANGED <<readers, panicked>>

\* Step 1: Rigid::integrate(dt) on the borrowed body.
solver_integrate ==
    /\ at = "idle" /\ ~panicked
    /\ borrow_mut("integrate")
    /\ UNCHANGED <<iteration, vertex, emitted, current, gjkVars, rigidVars>>

solver_integrate_return ==
    /\ at = "integrate" /\ ~panicked
    /\ drop_ref_mut("pass")
    /\ iteration' = 0
    /\ UNCHANGED <<vertex, emitted, current, gjkVars, rigidVars>>

\* Step 2: another pass, or step 3 after the last one.
solver_pass ==
    /\ at = "pass" /\ ~panicked
    /\ IF iteration < MaxIterations
       THEN at' = "ground" /\ vertex' = 1 /\ emitted' = 0
       ELSE at' = "derive" /\ UNCHANGED <<vertex, emitted>>
    /\ UNCHANGED <<iteration, current, readers, writer, panicked, gjkVars, rigidVars>>

\* collision.rs 21-22: the next vertex and rigid.borrow().frame.act(vertex);
\* collision.rs 39: after the last vertex ground returns its Vec.
ground_act ==
    /\ at = "ground" /\ ~panicked
    /\ IF vertex <= Len(CUBE_VERTICES)
       THEN borrow("ground_acted") /\ UNCHANGED current
       ELSE at' = "constraint" /\ current' = 1 /\ UNCHANGED <<readers, writer, panicked>>
    /\ UNCHANGED <<iteration, vertex, emitted, gjkVars, rigidVars>>

\* collision.rs 22-25: the temporary Ref ends with the statement; the vertex
\* is skipped, or handled.
ground_test ==
    /\ at = "ground_acted" /\ ~panicked
    /\ \E above \in BOOLEAN :
         IF above
         THEN drop_ref("ground") /\ vertex' = vertex + 1
         ELSE drop_ref("ground_below") /\ UNCHANGED vertex
    /\ UNCHANGED <<iteration, emitted, current, gjkVars, rigidVars>>

\* collision.rs 29: rigid.borrow().delta(position).
ground_delta ==
    /\ at = "ground_below" /\ ~panicked
    /\ borrow("ground_delta")
    /\ UNCHANGED <<iteration, vertex, emitted, current, gjkVars, rigidVars>>

\* collision.rs 29-36: the Ref ends, the Constraint is pushed.
ground_push ==
    /\ at = "ground_delta" /\ ~panicked
    /\ drop_ref("ground")
    /\ emitted' = emitted + 1
    /\ vertex' = vertex + 1
    /\ UNCHANGED <<iteration, current, gjkVars, rigidVars>>

\* constraint.rs 28: resistance() of the next constraint borrows the Rigid;
\* after the last constraint the pass is complete.
resistance_borrow ==
    /\ at = "constraint" /\ ~panicked
    /\ IF current <= emitted
       THEN borrow("resistance") /\ UNCHANGED iteration
       ELSE /\ at' = "pass" /\ iteration' = iteration + 1
            /\ UNCHANGED <<readers, writer, panicked>>
    /\ UNCHANGED <<vertex, emitted, current, gjkVars, rigidVars>>

\* A resistance that leaks its Ref (std::mem::forget).
resistance_return_leaks ==
    /\ at = "resistance" /\ ~panicked
    /\ at' = "act"
    /\ UNCHANGED <<readers, writer, panicked>>
    /\ UNCHANGED <<iteration, vertex, emitted, current, gjkVars, rigidVars>>

\* constraint.rs 34: resistance returns and its Ref ends; current_distance()
\* and the product borrow nothing.
resistance_return ==
    /\ at = "resistance" /\ ~panicked
    /\ drop_ref("act")
    /\ UNCHANGED <<iteration, vertex, emitted, current, gjkVars, rigidVars>>

\* constraint.rs 37-38: act computes the impulse and borrows mutably.
act_borrow_mut ==
    /\ at = "act" /\ ~panicked
    /\ borrow_mut("acting")
    /\ UNCHANGED <<iteration, vertex, emitted, current, gjkVars, rigidVars>>

\* constraint.rs 39-40: apply_impulse, and the RefMut ends with act.
act_return ==
    /\ at = "acting" /\ ~panicked
    /\ drop_ref_mut("constraint")
    /\ current' = current + 1
    /\ UNCHANGED <<iteration, vertex, emitted, gjkVars, rigidVars>>

\* Step 3: Rigid::derive(dt) on the borrowed body.
solver_derive ==
    /\ at = "derive" /\ ~panicked
    /\ borrow_mut("deriving")
    /\ UNCHANGED <<iteration, vertex, emitted, current, gjkVars, rigidVars>>

\* The step is over; the next frame starts another (world.rs 95).
solver_derive_return ==
    /\ at = "deriving" /\ ~panicked
    /\ drop_ref_mut("idle")
    /\ UNCHANGED <<iteration, vertex, emitted, current, gjkVars, rigidVars>>

SolverNext ==
    \/ solver_integrate \/ solver_integrate_return \/ solver_pass
    \/ ground_act \/ ground_test \/ ground_delta \/ ground_push
    \/ resistance_borrow \/ resistance_return \/ act_borrow_mut \/ act_return
    \/ solver_derive \/ solver_derive_return

SpecSolver == Init /\ [][SolverNext]_vars

(***************************************************************************)
(* The two hulls, as sets: the Minkowski difference of two unit cubes is   *)
(* the cube of side 2 m (4 half metres) centred at posA - posB.            *)
(***************************************************************************)
Gap(i) == Abs(posA[i][1] - posB[i][1])

\* The origin is interior to the Minkowski difference.
Overlapping == \A i \in 1..3 : Gap(i) < 2

\* The origin is outside the (closed) Minkowski difference.
Separated == \E i \in 1..3 : Gap(i) > 2

\* C1: gjk returns true for every pair of unit cubes that overlap with
\* positive volume.
C1_OverlapReturnsTrue == (pc = "done" /\ Overlapping) => result = TRUE

\* C2: gjk returns false for every pair of unit cubes separated by a positive
\* gap; it never accepts a tetrahedron for a separated pair.
C2_SeparatedReturnsFalse == (pc = "done" /\ Separated) => result = FALSE

\* The cubes at (0,0,0) and (2,0,0) (in half metres: 4), answered false, and a
\* separated pair answered only after a triangle was built.
C2_Witness ==
    /\ pc = "done" /\ Separated /\ result = FALSE
    /\ simplex.kind = "Triangle"

\* C3: whenever enclose(v) returns a next simplex, the first point of that
\* simplex is v, the support point added in that iteration.
C3_NewestFirst ==
    (pc = "loop" /\ added # NoVec) =>
        /\ Coords(simplex.pts[1]) = added
        /\ \A j \in DOMAIN simplex.pts : Age(simplex.pts[j]) <= Age(simplex.pts[1])

\* A triangle left by Simplex::tetrahedron, with the new point in front.
C3_Witness ==
    /\ pc = "loop" /\ added # NoVec
    /\ simplex.kind = "Triangle"
    /\ Coords(simplex.pts[1]) = added

\* C4: in every simplex the loop holds, the points are ordered by recency
\* across the whole tuple: the point at i was added later than the one at j > i.
C4_RecencyOrdered ==
    \A i, j \in DOMAIN simplex.pts : i < j => Age(simplex.pts[i]) > Age(simplex.pts[j])

\* C5: the loop of gjk terminates for every pair of unit cubes.
C5_Terminates == <>(pc = "done")

\* A call that returned after the loop had built a triangle.
C5_Witness == pc = "done" /\ simplex.kind = "Triangle" /\ result = TRUE

(***************************************************************************)
(* Ground contacts.                                                         *)
(***************************************************************************)
\* Two numbers are the same value (0.0 and -0.0 are).
Same(a, b) == IsExact(a) /\ IsExact(b) /\ a[1] = b[1]

SameVec(a, b) == \A i \in 1..3 : Same(a[i], b[i])

\* The world position of the i-th cube vertex of the body.
World(i) == Frame_act(rigid.frame, CUBE_VERTICES[i])

Below(i) == IsExact(World(i)[3]) /\ World(i)[3][1] < 0

Emitted(i) == {k \in DOMAIN constraints : constraints[k].contacts[1] = World(i)}

GroundContacts ==
    /\ Len(constraints) = Cardinality({i \in DOMAIN CUBE_VERTICES : Below(i)})
    /\ \A i \in DOMAIN CUBE_VERTICES :
         Cardinality(Emitted(i)) = IF Below(i) THEN 1 ELSE 0
    /\ \A k \in DOMAIN constraints : Same(constraints[k].distance, F(0))

\* C6: ground returns exactly one constraint for each cube vertex whose world z
\* is below 0 and none for a vertex with z >= 0; each has distance 0 and the
\* vertex's world position as contacts.0; the call leaves the Rigid as it was.
C6_GroundEmitsBelowPlane == [][op' = "ground" => (rigid' = rigid /\ GroundContacts')]_vars

\* A body with four vertices below the plane and four exactly on it.
C6_Witness ==
    /\ op = "ground" /\ Len(constraints) = 4
    /\ \E i \in DOMAIN CUBE_VERTICES : Same(World(i)[3], F(0))

Degenerate(c) == SameVec(c.contacts[1], c.contacts[2])

\* C7: act on a constraint with contacts.0 = contacts.1 leaves the frame of
\* the Rigid as it was, without NaN, and resistance() of such a constraint is
\* not NaN.
C7_DegenerateIsSatisfied ==
    [][/\ (op' = "act" /\ Degenerate(constraints[1])) =>
              /\ rigid'.frame = rigid.frame
              /\ ~HasNaN(rigid'.frame.position) /\ ~HasNaN(rigid'.frame.quaternion)
       /\ (op' = "resistance" /\ Degenerate(constraints[1])) => ~IsNaN(resisted')]_vars

(***************************************************************************)
(* The borrows of a solver step.                                            *)
(***************************************************************************)
\* C8: no borrow of the Rigid's cell is refused during a solver step; while
\* act holds the mutable borrow no other borrow is live, and between
\* operations no borrow is live.
C8_NoBorrowViolation ==
    /\ ~panicked
    /\ writer => readers = 0
    /\ readers <= 1
    /\ at \in {"idle", "pass", "ground", "ground_below", "constraint", "act", "derive"} =>
           (readers = 0 /\ ~writer)

\* The second constraint of a pass holds the mutable borrow.
C8_Witness == at = "acting" /\ writer /\ current = 2 /\ emitted >= 2 /\ iteration = 1

====
